---- MODULE Spec2Model ----
(***************************************************************************)
(* SA Fashion Store backend: the catalog query (list_products) and the     *)
(* checkout calculator (checkout) of main.py, with the request and         *)
(* document schemas of schemas.py.                                         *)
(*                                                                         *)
(* Money is counted in mills (1/1000 ZAR) so that round(x, 2) is a real    *)
(* conversion: a rounded amount is a multiple of 10 mills.  An optional    *)
(* value is <<>> when absent (None, or a field missing from the JSON body) *)
(* and <<v>> when present.  Text is a sequence of one-character strings.   *)
(***************************************************************************)
EXTENDS Integers, Sequences, FiniteSets, TLC

VARIABLES db, products, orders, pc, req, resp, lpc, largs, seeded, out

vars == <<db, products, orders, pc, req, resp, lpc, largs, seeded, out>>

checkoutVars == <<pc, req, resp, orders>>
catalogVars == <<products, lpc, largs, seeded, out>>

None == <<>>
Some(v) == <<v>>

-----------------------------------------------------------------------------
(* Bounds of the model *)

MaxOrders == 1
MaxProducts == 6

-----------------------------------------------------------------------------
(* Constants of the program, amounts in mills *)

FreeShippingThreshold == 1000000
ShippingFee == 80000
DefaultDepositPercent == 20
PlanMonths == 3
MaxDepositPercent == 100
MinQuantity == 1
CentMills == 10

-----------------------------------------------------------------------------
(* round(x, 2) of a float.  x is the rational n/d mills (d > 0).  Python   *)
(* rounds the binary value of x correctly; where the decimal value lies    *)
(* exactly half way between two cents the binary value may lie on either   *)
(* side (round(0.005, 2) = 0.01, round(0.125, 2) = 0.12), so both cents    *)
(* are possible results.                                                    *)

Round2(n, d) ==
    LET dd == d * CentMills
        q == n \div dd
        r == n % dd
    IN  IF 2 * r < dd THEN {q * CentMills}
        ELSE IF 2 * r > dd THEN {(q + 1) * CentMills}
        ELSE {q * CentMills, (q + 1) * CentMills}

-----------------------------------------------------------------------------
(* schemas.py *)

CartItemValid(i) == i.quantity >= MinQuantity

PlanTypes == {"once_off", "3_month"}

PaymentPlanValid_AnyType(p) ==
    p.deposit_percent # None =>
       (p.deposit_percent[1] >= 0 /\ p.deposit_percent[1] <= MaxDepositPercent)

PaymentPlanValid(p) ==
    /\ p.plan_type # None => p.plan_type[1] \in PlanTypes
    /\ p.deposit_percent # None =>
          (p.deposit_percent[1] >= 0 /\ p.deposit_percent[1] <= MaxDepositPercent)

PaymentPlan(p) ==
    [plan_type |-> IF p.plan_type = None THEN "once_off" ELSE p.plan_type[1],
     deposit_percent |-> IF p.deposit_percent = None THEN 0 ELSE p.deposit_percent[1],
     months |-> IF p.months = None THEN 1 ELSE p.months[1],
     monthly_amount |-> IF p.monthly_amount = None THEN 0 ELSE p.monthly_amount[1]]

RECURSIVE CountChar(_, _)
CountChar(s, c) ==
    IF s = <<>> THEN 0
    ELSE (IF Head(s) = c THEN 1 ELSE 0) + CountChar(Tail(s), c)

IndexOf(s, c) == CHOOSE i \in 1..Len(s) : s[i] = c /\ \A j \in 1..(i - 1) : s[j] # c

EmailStr(e) ==
    /\ CountChar(e, "@") = 1
    /\ LET at == IndexOf(e, "@")
           domain == SubSeq(e, at + 1, Len(e))
       IN  /\ at > 1
           /\ Len(domain) >= 3
           /\ CountChar(domain, ".") >= 1
           /\ Head(domain) # "."
           /\ domain[Len(domain)] # "."

OrderValid(o) == EmailStr(o.email)

-----------------------------------------------------------------------------
(* main.py, CheckoutRequest *)

CheckoutRequestValid(r) ==
    /\ \A k \in 1..Len(r.items) : CartItemValid(r.items[k])
    /\ PaymentPlanValid(r.payment_plan)

CheckoutRequest(r) ==
    [items |-> r.items,
     payment_plan |-> PaymentPlan(r.payment_plan),
     customer_name |-> r.customer_name,
     email |-> r.email,
     address |-> r.address]

-----------------------------------------------------------------------------
(* main.py, checkout: the pricing calculation *)

CartEmpty_Never(payload) == FALSE

CartEmpty(payload) == payload.items = <<>>

RECURSIVE Subtotal(_)
Subtotal(items) ==
    IF items = <<>> THEN 0
    ELSE Head(items).price_zar * Head(items).quantity + Subtotal(Tail(items))

Shipping_FreeAboveOnly(subtotal) ==
    IF subtotal <= FreeShippingThreshold THEN ShippingFee ELSE 0

Shipping(subtotal) ==
    IF subtotal < FreeShippingThreshold THEN ShippingFee ELSE 0

DepositPercent(plan) ==
    IF plan.deposit_percent # 0 THEN plan.deposit_percent ELSE DefaultDepositPercent

Deposits(subtotal, deposit_percent) == Round2(subtotal * deposit_percent, 100)

Remaining(subtotal, deposit) == subtotal - deposit

MonthlyAmounts_WholeRand(remaining, months) ==
    { m * 100 : m \in Round2(remaining, months * 100) }

MonthlyAmounts(remaining, months) == Round2(remaining, months)

OnceOffPlan ==
    [plan_type |-> "once_off", deposit_percent |-> 0, months |-> 1, monthly_amount |-> 0]

Plans_EchoRequest(payload, subtotal) ==
    IF payload.payment_plan.plan_type = "3_month"
    THEN { [plan_type |-> "3_month",
            deposit_percent |-> DepositPercent(payload.payment_plan),
            months |-> PlanMonths,
            monthly_amount |-> m] :
              m \in UNION { MonthlyAmounts(Remaining(subtotal, d), PlanMonths) :
                              d \in Deposits(subtotal, DepositPercent(payload.payment_plan)) } }
    ELSE {payload.payment_plan}

Plans(payload, subtotal) ==
    IF payload.payment_plan.plan_type = "3_month"
    THEN LET deposit_percent == DepositPercent(payload.payment_plan)
         IN  { [plan_type |-> "3_month",
                deposit_percent |-> deposit_percent,
                months |-> PlanMonths,
                monthly_amount |-> m] :
                  m \in UNION { MonthlyAmounts(Remaining(subtotal, d), PlanMonths) :
                                  d \in Deposits(subtotal, deposit_percent) } }
    ELSE {OnceOffPlan}

Orders(payload) ==
    LET subtotal == Subtotal(payload.items)
        shipping == Shipping(subtotal)
    IN  { [customer_name |-> payload.customer_name,
           email |-> payload.email,
           address |-> payload.address,
           items |-> payload.items,
           subtotal_zar |-> s,
           shipping_zar |-> sh,
           total_zar |-> t,
           currency |-> "ZAR",
           payment_plan |-> plan,
           status |-> "pending"] :
             s \in Round2(subtotal, 1),
             sh \in Round2(shipping, 1),
             t \in Round2(subtotal + shipping, 1),
             plan \in Plans(payload, subtotal) }

Summary(order) ==
    [subtotal_zar |-> order.subtotal_zar,
     shipping_zar |-> order.shipping_zar,
     total_zar |-> order.total_zar,
     payment_plan |-> order.payment_plan]

-----------------------------------------------------------------------------
(* database.py: the document store *)

CreateDocument(coll, doc) == Append(coll, [_id |-> Len(coll) + 1] @@ doc)

-----------------------------------------------------------------------------
(* Requests a client may send to POST /api/checkout *)

Item(p, n) == [product_id |-> "p1", title |-> "Item", price_zar |-> p, quantity |-> n]

Carts ==
    { <<>>,
      <<Item(5, 1)>>,
      <<Item(250, 1)>>,
      <<Item(-300000, 1)>>,
      <<Item(500000, 1)>>,
      <<Item(500000, 2)>>,
      <<Item(999995, 1)>>,
      <<Item(999990, 1), Item(10, 1)>>,
      <<Item(500000, 1), Item(999995, 2)>>,
      <<Item(200000, 0)>> }

RawPlans ==
    [plan_type : {None, Some("once_off"), Some("3_month"), Some("6_month")},
     deposit_percent : {None, Some(0), Some(50), Some(101)},
     months : {None, Some(6)},
     monthly_amount : {None, Some(5000)}]

Emails == { <<"t", "@", "x", ".", "z", "a">>, <<"t", "x", ".", "z", "a">> }

Requests ==
    [items : Carts,
     payment_plan : RawPlans,
     customer_name : {"Thandi"},
     email : Emails,
     address : {"12 Long St"}]

-----------------------------------------------------------------------------
(* POST /api/checkout *)

Persists(r) ==
    db /\ CheckoutRequestValid(r) /\ r.items # <<>> /\ EmailStr(r.email)

Submit ==
    /\ pc = "idle"
    /\ \E r \in Requests :
          /\ Persists(r) => Len(orders) < MaxOrders
          /\ req' = Some(r)
    /\ pc' = "pending"
    /\ UNCHANGED <<db, orders, resp, catalogVars>>

Checkout ==
    /\ pc = "pending"
    /\ pc' = "responded"
    /\ IF ~CheckoutRequestValid(req[1])
       THEN /\ resp' = Some([status_code |-> 422, detail |-> "Unprocessable Entity"])
            /\ UNCHANGED orders
       ELSE LET payload == CheckoutRequest(req[1])
            IN  IF CartEmpty(payload)
                THEN /\ resp' = Some([status_code |-> 400, detail |-> "Cart is empty"])
                     /\ UNCHANGED orders
                ELSE \E order \in Orders(payload) :
                       IF ~OrderValid(order)
                       THEN /\ resp' = Some([status_code |-> 500, detail |-> "Internal Server Error"])
                            /\ UNCHANGED orders
                       ELSE /\ orders' = IF db THEN CreateDocument(orders, order) ELSE orders
                            /\ resp' = Some([status_code |-> 200,
                                             body |-> [order_id |-> IF db THEN Some(Len(orders) + 1) ELSE None,
                                                       summary |-> Summary(order),
                                                       status |-> "pending",
                                                       message |-> "Order created. Proceed to payment."]])
    /\ UNCHANGED <<db, req, catalogVars>>

Deliver ==
    /\ pc = "responded"
    /\ pc' = "idle"
    /\ req' = None
    /\ resp' = None
    /\ UNCHANGED <<db, orders, catalogVars>>

NextCheckout == Submit \/ Checkout \/ Deliver

-----------------------------------------------------------------------------
(* database.py: get_documents, with the filter operators list_products     *)
(* uses: equality on a field and a case-insensitive $regex, here for       *)
(* patterns without metacharacters (a substring search).                   *)

LowerOf ==
    [c \in {"A", "C", "E", "H", "I", "J", "K", "M", "P", "R", "S", "T", "V", "Z"} |->
       CASE c = "A" -> "a" [] c = "C" -> "c" [] c = "E" -> "e" [] c = "H" -> "h"
         [] c = "I" -> "i" [] c = "J" -> "j" [] c = "K" -> "k" [] c = "M" -> "m"
         [] c = "P" -> "p" [] c = "R" -> "r" [] c = "S" -> "s" [] c = "T" -> "t"
         [] c = "V" -> "v" [] c = "Z" -> "z"]

Lower(s) == [k \in 1..Len(s) |-> IF s[k] \in DOMAIN LowerOf THEN LowerOf[s[k]] ELSE s[k]]

Contains(text, pattern) ==
    \E k \in 0..(Len(text) - Len(pattern)) :
        SubSeq(text, k + 1, k + Len(pattern)) = pattern

RegexI(text, pattern) == Contains(Lower(text), Lower(pattern))

Matches(d, filt) ==
    /\ filt.category # None => d.category = filt.category[1]
    /\ filt.or # None =>
          \/ RegexI(d.title, filt.or[1])
          \/ RegexI(d.brand, filt.or[1])
          \/ RegexI(d.description, filt.or[1])

NoFilter == [category |-> None, or |-> None]

GetDocuments(coll, filt) == SelectSeq(coll, LAMBDA d : Matches(d, filt))

-----------------------------------------------------------------------------
(* main.py, list_products *)

Filt(q, category) ==
    [category |-> IF category # None /\ category[1] # "" THEN category ELSE None,
     or |-> IF q # None /\ q[1] # <<>> THEN q ELSE None]

demo_items ==
    <<
      [title |-> <<"C", "l", "a", "s", "s", "i", "c", " ", "S", "A", " ",
                   "H", "o", "o", "d", "i", "e">>,
       brand |-> <<"M", "z", "a", "n", "s", "i", " ", "T", "h", "r", "e",
                   "a", "d", "s">>,
       description |->
         <<"H", "e", "a", "v", "y", "w", "e", "i", "g", "h", "t", " ", "f",
           "l", "e", "e", "c", "e", " ", "w", "i", "t", "h", " ", "b", "o",
           "l", "d", " ", "e", "m", "b", "r", "o", "i", "d", "e", "r", "y",
           ".">>,
       category |-> "clothing",
       price_zar |-> 799000,
       images |-> <<"https://images.unsplash.com/photo-1541099649105-f69ad21f3246?q=80&w=1200&auto=format&fit=crop">>,
       sizes |-> <<"S", "M", "L", "XL">>,
       in_stock |-> TRUE],
      [title |-> <<"S", "t", "r", "e", "e", "t", " ", "R", "u", "n", "n",
                   "e", "r", " ", "V", "2">>,
       brand |-> <<"J", "o", "b", "u", "r", "g", " ", "K", "i", "c", "k",
                   "s">>,
       description |->
         <<"L", "i", "g", "h", "t", "w", "e", "i", "g", "h", "t", ",", " ",
           "e", "v", "e", "r", "y", "d", "a", "y", " ", "s", "n", "e", "a",
           "k", "e", "r", ".">>,
       category |-> "shoes",
       price_zar |-> 1299000,
       images |-> <<"https://images.unsplash.com/photo-1542291026-7eec264c27ff?q=80&w=1200&auto=format&fit=crop">>,
       sizes |-> <<"6", "7", "8", "9", "10">>,
       in_stock |-> TRUE],
      [title |-> <<"S", "i", "g", "n", "a", "t", "u", "r", "e", " ", "T",
                   "e", "e">>,
       brand |-> <<"C", "a", "p", "e", " ", "C", "o", ".">>,
       description |->
         <<"P", "r", "e", "m", "i", "u", "m", " ", "c", "o", "t", "t", "o",
           "n", " ", "t", "e", "e", " ", "w", "i", "t", "h", " ", "o", "v",
           "e", "r", "s", "i", "z", "e", "d", " ", "f", "i", "t", ".">>,
       category |-> "clothing",
       price_zar |-> 349000,
       images |-> <<"https://images.unsplash.com/photo-1520975867597-0af37a22e31b?q=80&w=1200&auto=format&fit=crop">>,
       sizes |-> <<"S", "M", "L", "XL">>,
       in_stock |-> TRUE]
    >>

Normalize(docs) ==
    [k \in 1..Len(docs) |->
       [f \in (DOMAIN docs[k] \ {"_id"}) \cup {"id"} |->
          IF f = "id" THEN ToString(docs[k]._id) ELSE docs[k][f]]]

-----------------------------------------------------------------------------
(* Calls a client may make to GET /api/products.  The handler is a plain   *)
(* def, which the server runs on a pool of worker threads: two calls can   *)
(* interleave at their storage operations.                                  *)

Workers == {"w1", "w2"}

Queries == {None, Some(<<>>), Some(<<"T", "E", "E">>), Some(<<"z", "z", "z">>)}

Categories == {None, Some(""), Some("shoes"), Some("accessories")}

PendingInserts == LET RECURSIVE Sum(_)
                      Sum(S) == IF S = {} THEN 0
                                ELSE LET w == CHOOSE x \in S : TRUE
                                     IN  (IF lpc[w] = "seed" THEN Len(demo_items) - seeded[w] ELSE 0)
                                         + Sum(S \ {w})
                  IN  Sum(Workers)

(* lines 46-58: build the filter, query, and decide whether to seed *)
ListQuery(w) ==
    /\ lpc[w] = "idle"
    /\ \E q \in Queries, category \in Categories :
         LET filt == Filt(q, category)
             docs == IF db THEN GetDocuments(products, filt) ELSE <<>>
         IN  /\ largs' = [largs EXCEPT ![w] = [q |-> q, category |-> category]]
             /\ IF db /\ docs = <<>>
                THEN /\ Len(products) + PendingInserts + Len(demo_items) <= MaxProducts
                     /\ lpc' = [lpc EXCEPT ![w] = "seed"]
                     /\ seeded' = [seeded EXCEPT ![w] = 0]
                     /\ out' = [out EXCEPT ![w] = None]
                ELSE /\ out' = [out EXCEPT ![w] = Some(Normalize(docs))]
                     /\ UNCHANGED <<lpc, seeded>>
    /\ UNCHANGED <<db, products, checkoutVars>>

(* lines 88-89: one create_document of the seeding loop *)
ListSeed(w) ==
    /\ lpc[w] = "seed"
    /\ products' = CreateDocument(products, demo_items[seeded[w] + 1])
    /\ seeded' = [seeded EXCEPT ![w] = seeded[w] + 1]
    /\ lpc' = [lpc EXCEPT ![w] = IF seeded[w] + 1 = Len(demo_items) THEN "requery" ELSE "seed"]
    /\ UNCHANGED <<db, largs, out, checkoutVars>>

(* lines 90-96: query again without a filter, normalize and return *)
ListReturn(w) ==
    /\ lpc[w] = "requery"
    /\ out' = [out EXCEPT ![w] = Some(Normalize(GetDocuments(products, NoFilter)))]
    /\ lpc' = [lpc EXCEPT ![w] = "idle"]
    /\ UNCHANGED <<db, products, largs, seeded, checkoutVars>>

NextCatalog == \E w \in Workers : ListQuery(w) \/ ListSeed(w) \/ ListReturn(w)

-----------------------------------------------------------------------------

Init ==
    /\ db \in BOOLEAN
    /\ products = <<>>
    /\ orders = <<>>
    /\ pc = "idle"
    /\ req = None
    /\ resp = None
    /\ lpc = [w \in Workers |-> "idle"]
    /\ largs = [w \in Workers |-> [q |-> None, category |-> None]]
    /\ seeded = [w \in Workers |-> 0]
    /\ out = [w \in Workers |-> None]

Next == NextCheckout \/ NextCatalog

Spec == Init /\ [][Next]_vars

SpecCheckout == Init /\ [][NextCheckout]_vars

SpecCatalog == Init /\ [][NextCatalog]_vars

-----------------------------------------------------------------------------
(* Properties *)

Request == req[1]
Response == resp[1]
Responded == pc = "responded"
Completed == Responded /\ Response.status_code = 200
Payload == CheckoutRequest(Request)
EmittedPlan == Response.body.summary.payment_plan
Abs(x) == IF x < 0 THEN -x ELSE x
Copies(item) == Cardinality({k \in 1..Len(products) : products[k].title = item.title})

\* C1: list_products seeds only when the product store itself is empty: a
\* call enters the seeding branch only from a query made on an empty store,
\* so a filter that matches nothing on a non-empty catalog inserts nothing.
C1_SeedOnlyWhenStoreEmpty ==
    [][\A w \in Workers :
         (lpc[w] = "idle" /\ lpc'[w] = "seed") => products = <<>>]_vars

\* C2: checkout with an empty items list answers 400 "Cart is empty" and
\* leaves the order store unchanged, whatever the plan and customer fields.
C2_EmptyCartRejected ==
    [][(pc = "pending" /\ CheckoutRequestValid(Request) /\ Request.items = <<>>)
         => /\ resp' = Some([status_code |-> 400, detail |-> "Cart is empty"])
            /\ orders' = orders]_vars

C2_Witness ==
    /\ Responded
    /\ Request.items = <<>>
    /\ Request.payment_plan.plan_type = Some("3_month")
    /\ Response.status_code = 400
    /\ orders # <<>>

\* C3: a 3_month checkout emits the caller's deposit_percent whenever one
\* was provided (0 included) and 20 only when none was supplied.
C3_DepositPercentAsSupplied ==
    (Completed /\ Payload.payment_plan.plan_type = "3_month")
      => EmittedPlan.deposit_percent =
           (IF Request.payment_plan.deposit_percent # None
            THEN Request.payment_plan.deposit_percent[1]
            ELSE 20)

C5_UnknownPlanDegrades ==
    (Responded /\ Request.payment_plan.plan_type = Some("6_month"))
      => (Completed /\ EmittedPlan = OnceOffPlan)

\* C5 (amended): a request whose plan_type is neither once_off nor 3_month
\* is rejected by request validation with status 422 and persists no order.
C5_UnknownPlanRejected ==
    [][(pc = "pending"
        /\ Request.payment_plan.plan_type # None
        /\ Request.payment_plan.plan_type[1] \notin {"once_off", "3_month"})
         => /\ resp'[1].status_code = 422
            /\ orders' = orders]_vars

C5_Witness ==
    /\ Responded
    /\ Request.payment_plan.plan_type = Some("6_month")
    /\ Request.items # <<>>
    /\ CheckoutRequestValid([Request EXCEPT !.payment_plan.plan_type = None])
    /\ EmailStr(Request.email)
    /\ Response.status_code = 422

\* C6: a completed once_off checkout emits the plan {once_off, 0, 1, 0.0}
\* for every deposit_percent, months and monthly_amount the caller supplied.
C6_OnceOffCanonical ==
    (Completed /\ Payload.payment_plan.plan_type = "once_off")
      => /\ EmittedPlan.plan_type = "once_off"
         /\ EmittedPlan.deposit_percent = 0
         /\ EmittedPlan.months = 1
         /\ EmittedPlan.monthly_amount = 0

C6_Witness ==
    /\ Completed
    /\ Request.payment_plan = [plan_type |-> Some("once_off"),
                               deposit_percent |-> Some(50),
                               months |-> Some(6),
                               monthly_amount |-> Some(5000)]
    /\ EmittedPlan.months = 1

\* C7: with the store unavailable no operation fails or writes:
\* list_products returns an empty sequence without seeding, and checkout of
\* a non-empty cart returns its summary, status "pending", null order_id.
C7_DegradedNeverFails ==
    ~db =>
      /\ products = <<>>
      /\ orders = <<>>
      /\ \A w \in Workers : lpc[w] = "idle" /\ out[w] \in {None, Some(<<>>)}
      /\ (Responded /\ CheckoutRequestValid(Request) /\ Request.items # <<>>)
           => /\ Response.status_code = 200
              /\ Response.body.status = "pending"
              /\ Response.body.order_id = None

\* C8: for a completed 3_month checkout, with deposit the rounded
\* subtotal * deposit_percent / 100 and remaining the subtotal less the
\* deposit, deposit + remaining is the subtotal and three instalments
\* differ from remaining by at most 0.02.
C8_InstalmentsCoverRemaining ==
    (Completed /\ Payload.payment_plan.plan_type = "3_month")
      => \E deposit \in Round2(Subtotal(Request.items) * EmittedPlan.deposit_percent, 100) :
           LET remaining == Subtotal(Request.items) - deposit
           IN  /\ deposit + remaining = Subtotal(Request.items)
               /\ Abs(EmittedPlan.monthly_amount * 3 - remaining) <= 20

C8_Witness ==
    /\ Completed
    /\ Payload.payment_plan.plan_type = "3_month"
    /\ Subtotal(Request.items) = 999995
    /\ EmittedPlan.deposit_percent = 50
    /\ EmittedPlan.monthly_amount * 3 # Subtotal(Request.items) - 500000

\* C9: every order in the order store has status "pending", a non-empty
\* items list, total equal to subtotal plus shipping, and a non-negative
\* monthly_amount in its payment plan.
C9_StoredOrdersConsistent ==
    \A k \in 1..Len(orders) :
        /\ orders[k].status = "pending"
        /\ orders[k].items # <<>>
        /\ orders[k].total_zar = orders[k].subtotal_zar + orders[k].shipping_zar
        /\ orders[k].payment_plan.monthly_amount >= 0

\* C10: after any interleaving of list_products calls the product store
\* holds at most one copy of each of the three demo products.
C10_SeededAtMostOnce ==
    \A i \in 1..Len(demo_items) : Copies(demo_items[i]) <= 1

====
